---- MODULE Spec2Model ----
(***************************************************************************)
(* The two notebooks of assignment3 (network visualization and style       *)
(* transfer, TensorFlow) as a state machine.  One behaviour is the loading *)
(* cells of one notebook and then one run of one of its cells on the       *)
(* loaded model: `pc' is the position of the running cell, the other       *)
(* variables are the Python names the cells bind.                          *)
(*                                                                         *)
(* Numbers: pixels, features and weights are integers.  Rates and the clip *)
(* range of style_transfer are kept in tenths (3.0 is 30, 0.1 is 1, 1.5 is *)
(* 15).  A Python value is a record with a field `kind': None, a scalar,   *)
(* or an ndarray/Tensor holding nested tuples.                             *)
(***************************************************************************)
EXTENDS Integers, Sequences, FiniteSets, TLC

VARIABLES
    pc,             \* position of the running cell
    model,          \* the loaded classifier (weights fixed: trainable = False)
    error,          \* the exception that ended the cell, "" when none
    args,           \* arguments of the function the cell called
    ret,            \* the value the called function returned
    Xi,             \* fooling cell: the input image batch (1, H, W, 3)
    target_y,       \* fooling cell: the requested class
    X_fooling,      \* fooling cell: the image make_fooling_image works on
    fool_updates,   \* fooling cell: updates applied to X_fooling so far
    st,             \* style_transfer: its local names, as a record
    cv,             \* create_class_visualization: its local names, as a record
    nb              \* the notebook: its name, whether the checkpoint's index
                    \* file exists, and what its loading cells have done

vars == <<pc, model, error, args, ret, Xi, target_y, X_fooling, fool_updates, st, cv, nb>>

(***************************************************************************)
(* Bounds of the model.                                                    *)
(***************************************************************************)
MaxPix == 1         \* pixel and feature values range over -MaxPix..MaxPix
MaxN == 2           \* batch sizes 1..MaxN
MaxH == 2           \* heights 1..MaxH
MaxW == 2           \* widths 1..MaxW
NumClasses == 3     \* classes 0..NumClasses-1 (1000 in the notebook)
MaxWeight == 2      \* loss weights 0..MaxWeight

Channels == 3       \* the colour axis of an image
Pix == (0 - MaxPix)..MaxPix
Classes == 0..(NumClasses - 1)

(***************************************************************************)
(* Python values.                                                          *)
(***************************************************************************)
None == [kind |-> "None"]
Scalar(n) == [kind |-> "scalar", val |-> n]
NdArray(v) == [kind |-> "ndarray", val |-> v]

Abs(n) == IF n < 0 THEN 0 - n ELSE n
Max2(a, b) == IF a >= b THEN a ELSE b
Min2(a, b) == IF a <= b THEN a ELSE b

RECURSIVE SumFn(_)
\* The sum of the values of a function with a finite domain.
SumFn(f) ==
    IF DOMAIN f = {} THEN 0
    ELSE LET d == CHOOSE d \in DOMAIN f : TRUE
         IN  f[d] + SumFn([e \in DOMAIN f \ {d} |-> f[e]])

(***************************************************************************)
(* Images.  An image is img[h][w][c]; a batch is a tuple of images.  The   *)
(* inputs are the images ImgOf(H, W, a, b, c, d): pixel (h, w, ch) holds   *)
(* a*h + b*w + c*ch + d wrapped into Pix.                                  *)
(***************************************************************************)
Wrap(n) == ((n + MaxPix) % (2 * MaxPix + 1)) - MaxPix
ImgOf(H, W, a, b, c, d) ==
    [h \in 1..H |-> [w \in 1..W |-> [ch \in 1..Channels |->
        Wrap(a * h + b * w + c * ch + d)]]]
Images(H, W) == {ImgOf(H, W, a, b, c, d) : a \in {0, 1}, b \in {0, 1}, c \in {0, 1}, d \in Pix}
\* Batches of N images: image n of a batch is the seed image shifted by n.
Batches(N, H, W) ==
    {[n \in 1..N |-> ImgOf(H, W, a, b, c, d + n)] : a \in {0, 1}, b \in {0, 1}, c \in {0, 1}, d \in Pix}
\* The images load_image and preprocess_image hand to the style-transfer cells.
LoadedImages(H, W) == {ImgOf(H, W, 1, 1, 1, d) : d \in Pix}
Zeros(H, W) == [h \in 1..H |-> [w \in 1..W |-> [ch \in 1..Channels |-> 0]]]
Height(img) == Len(img)
Width(img) == Len(img[1])
Cells(img) == (1..Height(img)) \X (1..Width(img)) \X (1..Channels)

(***************************************************************************)
(* The classifier.  SqueezeNet is imported from cs231n.classifiers; here   *)
(* it is a linear scorer with one weight per class and channel, so that    *)
(* scores, argmax and the gradient of a score exist for every image.       *)
(***************************************************************************)
\* The name `model' before the loading cell has run: no weights.
NoModel == <<>>
Models ==
    { [k \in Classes |-> [ch \in 1..Channels |-> IF ch = (k % Channels) + 1 THEN 1 ELSE 0]],
      [k \in Classes |-> [ch \in 1..Channels |-> IF ch = (k % Channels) + 1 THEN 0 - 1 ELSE k]] }

\* model(X)[n][k]: the score of class k for image n of the batch X.
Scores(m, X) ==
    [n \in 1..Len(X) |-> [k \in Classes |->
        SumFn([p \in Cells(X[n]) |-> m[k][p[3]] * X[n][p[1]][p[2]][p[3]]])]]

\* tf.math.argmax / np.argmax: the first index of the largest entry.
ArgMax(s) == CHOOSE k \in DOMAIN s :
    /\ \A j \in DOMAIN s : s[j] <= s[k]
    /\ \A j \in DOMAIN s : s[j] = s[k] => k <= j

\* d scores[n][k] / d X[n][h][w][ch] of the scorer above.
ScoreGrad(m, k, ch) == m[k][ch]

(***************************************************************************)
(* The loading cells.  A notebook's cells run from the top, and a cell     *)
(* that raises ends the run.                                               *)
(***************************************************************************)
Notebooks == {"netvis", "style"}
\* The cells below the loading cells of notebook `name' can run.
Idle(name) == pc = "idle" /\ nb.name = name

\* A loading cell that builds and loads the model without the test of the
\* index file.
NetVisLoadModelUnchecked ==
    /\ pc = "start"
    /\ nb.name = "netvis"
    /\ model' \in Models
    /\ nb' = [nb EXCEPT !.done = <<"model", "weights">>]
    /\ pc' = "model_loaded"
    /\ UNCHANGED <<error, args, ret, Xi, target_y, X_fooling, fool_updates, st, cv>>

\* Network visualization: the test of SAVE_PATH + ".index", then
\* model = SqueezeNet(), model.load_weights(SAVE_PATH), trainable = False.
NetVisLoadModel ==
    /\ pc = "start"
    /\ nb.name = "netvis"
    /\ IF ~nb.index_exists
       THEN /\ pc' = "raised"
            /\ error' = "ValueError: You need to download SqueezeNet!"
            /\ UNCHANGED <<model, nb>>
       ELSE /\ model' \in Models
            /\ nb' = [nb EXCEPT !.done = <<"model", "weights">>]
            /\ pc' = "model_loaded"
            /\ error' = error
    /\ UNCHANGED <<args, ret, Xi, target_y, X_fooling, fool_updates, st, cv>>

\* Network visualization: load_imagenet_val(num=5) and preprocess_image.
NetVisLoadData ==
    /\ pc = "model_loaded"
    /\ nb' = [nb EXCEPT !.done = Append(@, "images")]
    /\ pc' = "idle"
    /\ UNCHANGED <<model, error, args, ret, Xi, target_y, X_fooling, fool_updates, st, cv>>

\* Style transfer: the cell that only tests SAVE_PATH + ".index".
StyleCheckCheckpoint ==
    /\ pc = "start"
    /\ nb.name = "style"
    /\ IF ~nb.index_exists
       THEN pc' = "raised" /\ error' = "ValueError: You need to download SqueezeNet!"
       ELSE pc' = "checkpoint_checked" /\ error' = error
    /\ UNCHANGED <<model, args, ret, Xi, target_y, X_fooling, fool_updates, st, cv, nb>>

\* Style transfer: the next cell builds and loads the model, then loads the
\* two test images and the reference answers.
StyleLoadModel ==
    /\ pc = "checkpoint_checked"
    /\ model' \in Models
    /\ nb' = [nb EXCEPT !.done = <<"model", "weights", "images", "answers">>]
    /\ pc' = "idle"
    /\ UNCHANGED <<error, args, ret, Xi, target_y, X_fooling, fool_updates, st, cv>>

(***************************************************************************)
(* Saliency maps.                                                          *)
(***************************************************************************)
\* compute_saliency_maps: `saliency = None', the body `pass', `return saliency'.
compute_saliency_maps(X, y, m) == None

\* show_saliency_maps up to the return of compute_saliency_maps(Xm, ym, model).
ShowSaliencyCall ==
    /\ Idle("netvis")
    /\ \E N \in 1..MaxN, H \in 1..MaxH, W \in {1, MaxW} :
       \E Xm \in Batches(N, H, W), ym \in [1..N -> Classes] :
          /\ args' = [X |-> Xm, y |-> ym]
          /\ ret' = compute_saliency_maps(Xm, ym, model)
    /\ pc' = "saliency_returned"
    /\ UNCHANGED <<model, error, Xi, target_y, X_fooling, fool_updates, st, cv, nb>>

\* The plotting loop of show_saliency_maps: it reads saliency[i] for i = 0.
ShowSaliencyPlot ==
    /\ pc = "saliency_returned"
    /\ IF ret.kind = "ndarray"
       THEN pc' = "saliency_shown" /\ error' = error
       ELSE pc' = "raised" /\ error' = "TypeError"
    /\ UNCHANGED <<model, args, ret, Xi, target_y, X_fooling, fool_updates, st, cv, nb>>

(***************************************************************************)
(* Fooling images.                                                         *)
(***************************************************************************)
FoolingIterCap == 100
learning_rate_fool == 1

\* make_fooling_image: X_fooling = X.copy(), the body `pass', `return X_fooling'.
make_fooling_image(X, ty, m) == X

\* An in-place ascent step on the caller's array (X_fooling bound to X itself
\* and not to a copy).
InputUpdatedInPlace(X, ty, m) ==
    [n \in 1..Len(X) |-> [h \in 1..Len(X[n]) |-> [w \in 1..Len(X[n][h]) |->
        [ch \in 1..Len(X[n][h][w]) |->
            X[n][h][w][ch] + learning_rate_fool * ScoreGrad(m, ty, ch)]]]]
\* The caller's array X when make_fooling_image returns: the function binds
\* X_fooling to a copy and assigns nothing to X.
InputAfterFooling(X, ty, m) == X

\* The fooling cell: idx = 0, Xi = X[idx][None], target_y = 6.
FoolingBind ==
    /\ Idle("netvis")
    /\ \E H \in 1..MaxH, W \in 1..MaxW :
       \E img \in Images(H, W), ty \in Classes :
          /\ Xi' = <<img>>
          /\ target_y' = ty
    /\ pc' = "fooling_bound"
    /\ UNCHANGED <<model, error, args, ret, X_fooling, fool_updates, st, cv, nb>>

\* X_fooling = make_fooling_image(Xi, target_y, model), up to its return.
FoolingCall ==
    /\ pc = "fooling_bound"
    /\ X_fooling' = make_fooling_image(Xi, target_y, model)
    /\ Xi' = InputAfterFooling(Xi, target_y, model)
    /\ fool_updates' = 0
    /\ pc' = "fooling_returned"
    /\ UNCHANGED <<model, error, args, ret, target_y, st, cv, nb>>

\* scores = model(X_fooling); assert argmax(scores[0]) == target_y; the plots.
FoolingAssert ==
    /\ pc = "fooling_returned"
    /\ IF ArgMax(Scores(model, X_fooling)[1]) = target_y
       THEN pc' = "fooling_plotted" /\ error' = error
       ELSE pc' = "raised" /\ error' = "AssertionError: The network is not fooled!"
    /\ UNCHANGED <<model, args, ret, Xi, target_y, X_fooling, fool_updates, st, cv, nb>>

(***************************************************************************)
(* Feature extraction.  cnn.net.layers belongs to the imported SqueezeNet; *)
(* here layer i is an elementwise map that keeps the shape.                *)
(***************************************************************************)
NetLayers == 5      \* len(cnn.net.layers)

\* layer(prev_feat) for layer number i (from 0) of cnn.net.layers.
Layer(i, X) ==
    [n \in 1..Len(X) |-> [h \in 1..Len(X[n]) |-> [w \in 1..Len(X[n][h]) |->
        [ch \in 1..Len(X[n][h][w]) |->
            IF i % 2 = 0 THEN Wrap(X[n][h][w][ch] + i + ch)
            ELSE Max2(0, X[n][h][w][ch])]]]]

RECURSIVE ExtractLoopStale(_, _, _, _)
\* The loop without `prev_feat = next_feat': every layer is applied to x.
ExtractLoopStale(i, n, prev_feat, features) ==
    IF i = n THEN features
    ELSE LET next_feat == Layer(i, prev_feat)
         IN  ExtractLoopStale(i + 1, n, prev_feat, Append(features, next_feat))

RECURSIVE ExtractLoop(_, _, _, _)
\* The loop of extract_features from layer number i on: `features' holds the
\* maps appended so far and `prev_feat' the last of them (x before the first).
ExtractLoop(i, n, prev_feat, features) ==
    IF i = n THEN features
    ELSE LET next_feat == Layer(i, prev_feat)
         IN  ExtractLoop(i + 1, n, next_feat, Append(features, next_feat))

\* extract_features: one map per layer of cnn.net.layers[:-2].
extract_features(x, cnn) == ExtractLoop(0, NetLayers - 2, x, <<>>)

\* Python's list[i] (from 0) on a tuple (from 1).
At(list, i) == list[i + 1]
FeatureLayers == 0..(NetLayers - 3)

(***************************************************************************)
(* The losses of style transfer.  Each body is `pass': the call returns    *)
(* None.                                                                   *)
(***************************************************************************)
content_loss(content_weight, content_current, content_original) == None
gram_matrix(features, normalize) == None
style_loss(feats, style_layers, style_targets, style_weights) == None
tv_loss(img, tv_weight) == None

Weights == 0..MaxWeight
\* The lists of style layers the cells pass: one layer, or layer 0 and a later one.
StyleLayerLists == {<<l>> : l \in FeatureLayers} \cup
    {<<0, l>> : l \in FeatureLayers \ {0}}

\* A call extract_features(x, model) on a minibatch, up to its return.
ExtractFeaturesCall ==
    /\ Idle("style")
    /\ \E N \in 1..MaxN, H \in 1..MaxH, W \in {1, MaxW} :
       \E x \in Batches(N, H, W) :
          /\ args' = [x |-> x]
          /\ ret' = [kind |-> "list", val |-> extract_features(x, model)]
    /\ pc' = "extract_features_returned"
    /\ UNCHANGED <<model, error, Xi, target_y, X_fooling, fool_updates, st, cv, nb>>

\* content_loss_test up to the return of content_loss.
ContentLossTestCall ==
    /\ Idle("style")
    /\ \E H \in 1..MaxH, W \in 1..MaxW, content_layer \in FeatureLayers :
       \E content_img_test \in Images(H, W), content_weight \in Weights :
          LET c_feats == At(extract_features(<<content_img_test>>, model), content_layer)
              bad_img == <<Zeros(H, W)>>
              feats == At(extract_features(bad_img, model), content_layer)
          IN  /\ args' = [content_weight |-> content_weight,
                          content_current |-> c_feats, content_original |-> feats]
              /\ ret' = content_loss(content_weight, c_feats, feats)
    /\ pc' = "content_loss_returned"
    /\ UNCHANGED <<model, error, Xi, target_y, X_fooling, fool_updates, st, cv, nb>>

\* gram_matrix_test up to the return of gram_matrix.
GramMatrixTestCall ==
    /\ Idle("style")
    /\ \E H \in 1..MaxH, W \in 1..MaxW, layer \in FeatureLayers, normalize \in BOOLEAN :
       \E style_img_test \in Images(H, W) :
          LET features == At(extract_features(<<style_img_test>>, model), layer)
          IN  /\ args' = [features |-> features, normalize |-> normalize]
              /\ ret' = gram_matrix(features, normalize)
    /\ pc' = "gram_matrix_returned"
    /\ UNCHANGED <<model, error, Xi, target_y, X_fooling, fool_updates, st, cv, nb>>

\* style_loss_test up to the return of style_loss.
StyleLossTestCall ==
    /\ Idle("style")
    /\ \E H \in 1..MaxH, W \in 1..MaxW, style_layers \in StyleLayerLists :
       \E content_img_test \in LoadedImages(H, W), style_img_test \in LoadedImages(H, W),
          style_weights \in [1..Len(style_layers) -> Weights] :
          LET c_feats == extract_features(<<content_img_test>>, model)
              feats == extract_features(<<style_img_test>>, model)
              style_targets == [i \in 1..Len(style_layers) |->
                                   gram_matrix(At(feats, style_layers[i]), TRUE)]
          IN  /\ args' = [feats |-> c_feats, style_layers |-> style_layers,
                          style_targets |-> style_targets, style_weights |-> style_weights]
              /\ ret' = style_loss(c_feats, style_layers, style_targets, style_weights)
    /\ pc' = "style_loss_returned"
    /\ UNCHANGED <<model, error, Xi, target_y, X_fooling, fool_updates, st, cv, nb>>

\* tv_loss_test up to the return of tv_loss.
TvLossTestCall ==
    /\ Idle("style")
    /\ \E H \in 1..MaxH, W \in 1..MaxW :
       \E content_img_test \in Images(H, W), tv_weight \in Weights :
          /\ args' = [img |-> <<content_img_test>>, tv_weight |-> tv_weight]
          /\ ret' = tv_loss(<<content_img_test>>, tv_weight)
    /\ pc' = "tv_loss_returned"
    /\ UNCHANGED <<model, error, Xi, target_y, X_fooling, fool_updates, st, cv, nb>>

TestReturned ==
    pc \in {"content_loss_returned", "gram_matrix_returned",
            "style_loss_returned", "tv_loss_returned"}

\* The rest of a test: error = rel_error(correct, output), then the print.
\* rel_error subtracts its arguments, which raises for None.
TestReport ==
    /\ TestReturned
    /\ IF ret.kind = "None"
       THEN pc' = "raised" /\ error' = "TypeError"
       ELSE pc' = "test_printed" /\ error' = error
    /\ UNCHANGED <<model, args, ret, Xi, target_y, X_fooling, fool_updates, st, cv, nb>>

(***************************************************************************)
(* style_transfer.  Image values, rates and the clip range are in tenths.  *)
(***************************************************************************)
initial_lr == 30    \* 3.0
decayed_lr == 1     \* 0.1
decay_lr_at == 180
max_iter == 200
ClipLo == 0 - 15    \* -1.5
ClipHi == 15        \* 1.5
RenderEvery == 100

\* The schedule with its two values the wrong way round.
learning_rate_fn_swapped(step) == IF step <= decay_lr_at THEN decayed_lr ELSE initial_lr

\* PiecewiseConstantDecay([decay_lr_at], [initial_lr, decayed_lr]) called on a
\* step: the first value up to and including the boundary, the second after it.
learning_rate_fn(step) == IF step <= decay_lr_at THEN initial_lr ELSE decayed_lr

\* tf.keras.optimizers.Adam(learning_rate = a number).
Adam(learning_rate) == [learning_rate |-> learning_rate, iterations |-> 0]
\* The rate the optimizer applies in its update number i (from 0): built with
\* a number and not with the schedule, it keeps that number.
AdamRate(optimizer, i) == optimizer.learning_rate

Sign(n) == IF n > 0 THEN 1 ELSE IF n < 0 THEN 0 - 1 ELSE 0
MapBatch(X, F(_)) ==
    [n \in 1..Len(X) |-> [h \in 1..Len(X[n]) |-> [w \in 1..Len(X[n][h]) |->
        [ch \in 1..Len(X[n][h][w]) |-> F(X[n][h][w][ch])]]]]
\* optimizer.apply_gradients([(grad, img_var)]): a step of the optimizer's rate
\* against the gradient's sign in every element (Adam's first step).
ApplyGradients(optimizer, grad, var) ==
    [n \in 1..Len(var) |-> [h \in 1..Len(var[n]) |-> [w \in 1..Len(var[n][h]) |->
        [ch \in 1..Len(var[n][h][w]) |->
            var[n][h][w][ch]
              - AdamRate(optimizer, optimizer.iterations) * Sign(grad[n][h][w][ch])]]]]
\* tf.clip_by_value(x, lo, hi), element by element.
clip_by_value(X, lo, hi) == MapBatch(X, LAMBDA v : Max2(lo, Min2(hi, v)))

\* Python's a + b for the values a loss function returns.
PyAdd(a, b) ==
    IF a.kind = "scalar" /\ b.kind = "scalar" THEN Scalar(a.val + b.val)
    ELSE [kind |-> "TypeError"]

\* The noise style_transfer starts from when init_random is set.
UniformImages(H, W) ==
    {[h \in 1..H |-> [w \in 1..W |-> [ch \in 1..Channels |-> (h + w + ch + d) % 10]]] :
        d \in 0..MaxPix}
LossWeightPairs == {<<1, 1>>, <<MaxWeight, 1>>}
\* The gradients tape.gradient may hand back for an image of the given shape.
Gradients(img) == {MapBatch(img, LAMBDA v : g) : g \in {0 - 1, 0, 1}} \cup {img}

\* The two branches of the initialisation taken the wrong way round.
InitialImagesSwapped(init_random, content_img) ==
    IF init_random THEN {<<content_img>>}
    ELSE {<<img>> : img \in UniformImages(Height(content_img), Width(content_img))}
\* The values img_var may start from: initializer(shape=content_img[None].shape)
\* of tf.random_uniform_initializer(0, 1) when init_random, else content_img[None].
InitialImages(init_random, content_img) ==
    IF init_random
    THEN {<<img>> : img \in UniformImages(Height(content_img), Width(content_img))}
    ELSE {<<content_img>>}

\* style_transfer from its first line to the entry of the loop.
StyleTransferSetup ==
    /\ Idle("style")
    /\ \E H \in 1..MaxH, Hs \in {1, MaxH}, content_layer \in FeatureLayers,
          style_layers \in StyleLayerLists, sw \in Weights, lw \in LossWeightPairs,
          init_random \in BOOLEAN :
       \E content_img \in LoadedImages(H, MaxW), style_img \in {ImgOf(Hs, MaxW, 1, 1, 1, 0)} :
       \E img_var \in InitialImages(init_random, content_img) :
          LET feats == extract_features(<<content_img>>, model)
              content_target == At(feats, content_layer)
              s_feats == extract_features(<<style_img>>, model)
              style_targets == [i \in 1..Len(style_layers) |->
                                   gram_matrix(At(s_feats, style_layers[i]), TRUE)]
              step == 0
              learning_rate == learning_rate_fn(step)
              optimizer == Adam(learning_rate)
          IN  st' = [content_img |-> content_img,
                     content_layer |-> content_layer,
                     content_weight |-> lw[1],
                     style_layers |-> style_layers,
                     style_weights |-> [i \in 1..Len(style_layers) |-> sw],
                     tv_weight |-> lw[2],
                     init_random |-> init_random,
                     content_target |-> content_target,
                     style_targets |-> style_targets,
                     step |-> step,
                     learning_rate |-> learning_rate,
                     optimizer |-> optimizer,
                     img_var |-> img_var,
                     t |-> 0,
                     rendered |-> <<>>]
    /\ pc' = "st_loop"
    /\ UNCHANGED <<model, error, args, ret, Xi, target_y, X_fooling, fool_updates, cv, nb>>

\* A pass that takes content_target anew from the features of the generated
\* image (content_target bound inside the loop), up to the sum of the losses.
StyleTransferIterRetarget ==
    /\ pc = "st_loop"
    /\ st.t < max_iter
    /\ st' = [st EXCEPT !.content_target =
                 At(extract_features(st.img_var, model), st.content_layer)]
    /\ pc' = "raised"
    /\ error' = "TypeError"
    /\ UNCHANGED <<model, args, ret, Xi, target_y, X_fooling, fool_updates, cv, nb>>

\* One pass through the body of `for t in range(max_iter)', and after the
\* last pass the lines that follow the loop.
StyleTransferIter ==
    /\ pc = "st_loop"
    /\ st.t < max_iter
    /\ LET feats == extract_features(st.img_var, model)
           c_loss == content_loss(st.content_weight, At(feats, st.content_layer),
                                  st.content_target)
           s_loss == style_loss(feats, st.style_layers, st.style_targets,
                                st.style_weights)
           t_loss == tv_loss(st.img_var, st.tv_weight)
           loss == PyAdd(PyAdd(c_loss, s_loss), t_loss)
       IN  IF loss.kind = "TypeError"
           THEN /\ pc' = "raised"
                /\ error' = "TypeError"
                /\ st' = st
           ELSE \E grad \in Gradients(st.img_var) :
                LET stepped == ApplyGradients(st.optimizer, grad, st.img_var)
                    clipped == clip_by_value(stepped, ClipLo, ClipHi)
                    shown == IF st.t % RenderEvery = 0
                             THEN Append(st.rendered, [label |-> st.t, img |-> clipped])
                             ELSE st.rendered
                    last == st.t + 1 = max_iter
                IN  /\ st' = [st EXCEPT
                              !.img_var = clipped,
                              !.optimizer.iterations = @ + 1,
                              !.t = @ + 1,
                              !.rendered = IF last
                                  THEN Append(shown, [label |-> st.t, img |-> clipped])
                                  ELSE shown]
                    /\ pc' = IF last THEN "st_done" ELSE "st_loop"
                    /\ error' = error
    /\ UNCHANGED <<model, args, ret, Xi, target_y, X_fooling, fool_updates, cv, nb>>

(***************************************************************************)
(* Class visualization.  Pixels of the generated image are in tenths.      *)
(***************************************************************************)
\* Python's slice bound i on a sequence of length L: counted from the end
\* when negative, and cut to 0..L.
PyBound(i, L) == IF i < 0 THEN Max2(0, L + i) ELSE Min2(i, L)
\* s[:e] and s[b:] on a tuple.
SliceTo(s, e) == SubSeq(s, 1, PyBound(e, Len(s)))
SliceFrom(s, b) == SubSeq(s, PyBound(b, Len(s)) + 1, Len(s))

\* A jitter that takes the size of the offsets and drops their sign.
jitter_unsigned(X, ox, oy) ==
    LET ax == Abs(ox)
        ay == Abs(oy)
        X1 == IF ax # 0
              THEN [n \in 1..Len(X) |-> [h \in 1..Len(X[n]) |->
                       SliceFrom(X[n][h], 0 - ax) \o SliceTo(X[n][h], 0 - ax)]]
              ELSE X
    IN  IF ay # 0
        THEN [n \in 1..Len(X1) |-> SliceFrom(X1[n], 0 - ay) \o SliceTo(X1[n], 0 - ay)]
        ELSE X1
\* A jitter that cuts at ox and oy from the front: the shift goes the other way.
jitter_reversed(X, ox, oy) ==
    LET X1 == IF ox # 0
              THEN [n \in 1..Len(X) |-> [h \in 1..Len(X[n]) |->
                       SliceFrom(X[n][h], ox) \o SliceTo(X[n][h], ox)]]
              ELSE X
    IN  IF oy # 0
        THEN [n \in 1..Len(X1) |-> SliceFrom(X1[n], oy) \o SliceTo(X1[n], oy)]
        ELSE X1

\* jitter: tf.concat([right, left], axis=2) of the slices along the width,
\* then tf.concat([bottom, top], axis=1) of the slices along the height.
jitter(X, ox, oy) ==
    LET X1 == IF ox # 0
              THEN [n \in 1..Len(X) |-> [h \in 1..Len(X[n]) |->
                       LET left == SliceTo(X[n][h], 0 - ox)
                           right == SliceFrom(X[n][h], 0 - ox)
                       IN  right \o left]]
              ELSE X
    IN  IF oy # 0
        THEN [n \in 1..Len(X1) |->
                 LET top == SliceTo(X1[n], 0 - oy)
                     bottom == SliceFrom(X1[n], 0 - oy)
                 IN  bottom \o top]
        ELSE X1

\* SQUEEZENET_MEAN and SQUEEZENET_STD of cs231n.image_utils, in thousandths.
SQUEEZENET_MEAN == <<485, 456, 406>>
SQUEEZENET_STD == <<229, 224, 225>>
\* The tenths inside [-MEAN[c]/STD[c], (1 - MEAN[c])/STD[c]] nearest its ends.
CvClipLo(c) == 0 - ((10 * SQUEEZENET_MEAN[c]) \div SQUEEZENET_STD[c])
CvClipHi(c) == (10 * (1000 - SQUEEZENET_MEAN[c])) \div SQUEEZENET_STD[c]
\* tf.clip_by_value(X, lo, hi) with one bound per channel (broadcast over the
\* last axis).
clip_by_channel(X) ==
    [n \in 1..Len(X) |-> [h \in 1..Len(X[n]) |-> [w \in 1..Len(X[n][h]) |->
        [c \in 1..Len(X[n][h][w]) |->
            Max2(CvClipLo(c), Min2(CvClipHi(c), X[n][h][w][c]))]]]]

\* gaussian_filter1d(sigma = 0.5): the kernel exp(-2 k^2), k = -2..2, divided
\* by its sum, in ten-thousandths.
GaussWeight(k) == IF k = 0 THEN 7866 ELSE IF Abs(k) = 1 THEN 1064 ELSE 3
GaussSum == 10000
\* mode = 'reflect': position i outside 1..L is mirrored about the edge.
Reflect(i, L) ==
    LET j == (i - 1) % (2 * L)
    IN  IF j < L THEN j + 1 ELSE 2 * L - j
\* The filtered value at position i of a line of L values, rounded to the
\* nearest tenth.
Gauss1d(line, L, i) ==
    (SumFn([k \in (0 - 2)..2 |-> GaussWeight(k) * line[Reflect(i + k, L)]])
        + (GaussSum \div 2)) \div GaussSum
\* The filter F along axis 1 (height), then along axis 2 (width).
FilterAxes(X, F(_, _, _)) ==
    LET X1 == [n \in 1..Len(X) |-> [h \in 1..Len(X[n]) |-> [w \in 1..Len(X[n][h]) |->
                  [c \in 1..Len(X[n][h][w]) |->
                      F([i \in 1..Len(X[n]) |-> X[n][i][w][c]], Len(X[n]), h)]]]]
    IN  [n \in 1..Len(X1) |-> [h \in 1..Len(X1[n]) |-> [w \in 1..Len(X1[n][h]) |->
            [c \in 1..Len(X1[n][h][w]) |->
                F([i \in 1..Len(X1[n][h]) |-> X1[n][h][i][c]], Len(X1[n][h]), w)]]]]
\* A filter whose kernel is left undivided by its sum (centre weight 1).
Gauss1dUnnormalised(line, L, i) ==
    (SumFn([k \in (0 - 2)..2 |-> GaussWeight(k) * line[Reflect(i + k, L)]])
        + (GaussWeight(0) \div 2)) \div GaussWeight(0)
blur_image_unnormalised(X, sigma) == FilterAxes(X, Gauss1dUnnormalised)
\* blur_image, for the sigma = 0.5 of its one call.
blur_image(X, sigma) == FilterAxes(X, Gauss1d)

\* A tensor of shape (N, H, W, C) whose entries all differ; d moves them.
Ramp(N, H, W, d) ==
    [n \in 1..N |-> [h \in 1..H |-> [w \in 1..W |-> [c \in 1..Channels |->
        ((n * H + h) * W + w) * Channels + c + d]]]]

\* A call jitter(X, ox, oy) on a tensor of shape (N, H, W, C), up to its return.
JitterCall ==
    /\ Idle("netvis")
    /\ \E N \in 1..MaxN, H \in 1..MaxH, W \in 1..MaxW, d \in {0, MaxPix},
          ox \in (0 - MaxW)..MaxW, oy \in (0 - MaxH)..MaxH :
          /\ args' = [X |-> Ramp(N, H, W, d), ox |-> ox, oy |-> oy]
          /\ ret' = NdArray(jitter(Ramp(N, H, W, d), ox, oy))
    /\ pc' = "jitter_returned"
    /\ UNCHANGED <<model, error, Xi, target_y, X_fooling, fool_updates, st, cv, nb>>

\* The call jitter(., -ox, -oy) on what the call before returned.
JitterUndoCall ==
    /\ pc = "jitter_returned"
    /\ ret' = NdArray(jitter(ret.val, 0 - args.ox, 0 - args.oy))
    /\ pc' = "jitter_undone"
    /\ UNCHANGED <<model, error, args, Xi, target_y, X_fooling, fool_updates, st, cv, nb>>

CvSize == 3         \* height and width of the generated image (224 in the notebook)
MaxIters == 3       \* num_iterations ranges over 0..MaxIters
MaxJitter == 3      \* max_jitter ranges over 0..MaxJitter
MaxEvery == 2       \* blur_every and show_every range over 0..MaxEvery

DefaultIterations == 100    \* kwargs.pop('num_iterations', 100)
DefaultBlurEvery == 10      \* kwargs.pop('blur_every', 10)
DefaultShowEvery == 25      \* kwargs.pop('show_every', 25)

\* The keyword arguments of the calls: small values, 0 among them, and the
\* defaults (max_jitter, 16 for the 224 pixels of the notebook, on the scale of
\* CvSize).
CvKwargs ==
    [num_iterations : 0..MaxIters, blur_every : 0..MaxEvery,
     max_jitter : 0..MaxJitter, show_every : 0..MaxEvery]
    \cup {[num_iterations |-> DefaultIterations, blur_every |-> DefaultBlurEvery,
           max_jitter |-> MaxJitter, show_every |-> DefaultShowEvery]}

\* preprocess_image(255 * np.random.rand(...)): a value (r - MEAN[c]) / STD[c]
\* with 0 <= r < 1 in every pixel; seed d picks the image.
CvNoise(d) ==
    [h \in 1..CvSize |-> [w \in 1..CvSize |-> [c \in 1..Channels |->
        CvClipLo(c) + ((5 * h + 11 * w + 3 * c + 17 * d) % (CvClipHi(c) - CvClipLo(c) + 1))]]]

\* Tests that are off by one iteration.
BlurNowLate(t, blur_every) == (t + 1) % blur_every = 0
ShowNowLate(t, show_every, num_iterations) ==
    t = 0 \/ t % show_every = 0 \/ t = num_iterations - 1
\* t % blur_every == 0
BlurNow(t, blur_every) == t % blur_every = 0
\* t == 0 or (t + 1) % show_every == 0 or t == num_iterations - 1
ShowNow(t, show_every, num_iterations) ==
    t = 0 \/ (t + 1) % show_every = 0 \/ t = num_iterations - 1

\* create_class_visualization from its first line to the entry of the loop.
\* `steps' lists what the running iteration has done to X so far and `start' is
\* X at its head; `before' and `off' are the argument and the offsets of the
\* latest call of jitter; `noise' is the first X, `calls' counts the jitter,
\* undo and clip statements run, `blurred' and `shown' list the iterations that
\* blurred and showed.
CvLocals(ty, kw, d) ==
    [target_y |-> ty,
     l2_reg |-> 0,
     learning_rate |-> 25,
     num_iterations |-> kw.num_iterations,
     blur_every |-> kw.blur_every,
     max_jitter |-> kw.max_jitter,
     show_every |-> kw.show_every,
     noise |-> <<CvNoise(d)>>,
     X |-> <<CvNoise(d)>>,
     t |-> 0,
     ox |-> 0,
     oy |-> 0,
     start |-> <<>>,
     steps |-> <<>>,
     before |-> <<>>,
     off |-> <<0, 0>>,
     calls |-> [jitter |-> 0, undo |-> 0, clip |-> 0],
     blurred |-> <<>>,
     shown |-> <<>>]

CvSetup ==
    /\ Idle("netvis")
    /\ \E ty \in {0, NumClasses - 1}, kw \in CvKwargs, d \in {0, MaxPix} :
          cv' = CvLocals(ty, kw, d)
    /\ pc' = "cv_loop"
    /\ UNCHANGED <<model, error, args, ret, Xi, target_y, X_fooling, fool_updates, st, nb>>

\* The head of `for t in range(num_iterations)', the draw of the offsets and
\* the jitter of the image.  np.random.randint(0, max_jitter, 2) raises
\* ValueError when max_jitter <= 0.
CvJitter ==
    /\ pc = "cv_loop"
    /\ cv.t < cv.num_iterations
    /\ IF cv.max_jitter <= 0
       THEN /\ pc' = "raised"
            /\ error' = "ValueError"
            /\ cv' = cv
       ELSE /\ \E ox \in 0..(cv.max_jitter - 1), oy \in 0..(cv.max_jitter - 1) :
                  cv' = [cv EXCEPT !.ox = ox, !.oy = oy,
                                   !.X = jitter(cv.X, ox, oy),
                                   !.start = cv.X,
                                   !.before = cv.X, !.off = <<ox, oy>>,
                                   !.calls.jitter = @ + 1,
                                   !.steps = <<"jitter">>]
            /\ pc' = "cv_step"
            /\ error' = error
    /\ UNCHANGED <<model, args, ret, Xi, target_y, X_fooling, fool_updates, st, nb>>

\* The place of the gradient step: the statement there is `pass'.
CvGradientStep ==
    /\ pc = "cv_step"
    /\ pc' = "cv_undo"
    /\ UNCHANGED <<model, error, args, ret, Xi, target_y, X_fooling, fool_updates, st, cv, nb>>

\* X = jitter(X, -ox, -oy)
CvUndoJitter ==
    /\ pc = "cv_undo"
    /\ cv' = [cv EXCEPT !.X = jitter(cv.X, 0 - cv.ox, 0 - cv.oy),
                        !.before = cv.X, !.off = <<0 - cv.ox, 0 - cv.oy>>,
                        !.calls.undo = @ + 1,
                        !.steps = Append(@, "undo")]
    /\ pc' = "cv_clip"
    /\ UNCHANGED <<model, error, args, ret, Xi, target_y, X_fooling, fool_updates, st, nb>>

\* X = tf.clip_by_value(X, -MEAN/STD, (1 - MEAN)/STD)
CvClip ==
    /\ pc = "cv_clip"
    /\ cv' = [cv EXCEPT !.X = clip_by_channel(cv.X),
                        !.calls.clip = @ + 1,
                        !.steps = Append(@, "clip")]
    /\ pc' = "cv_blur"
    /\ UNCHANGED <<model, error, args, ret, Xi, target_y, X_fooling, fool_updates, st, nb>>

\* if t % blur_every == 0: X = blur_image(X, sigma=0.5).  The modulo raises
\* ZeroDivisionError when blur_every is 0.
CvBlur ==
    /\ pc = "cv_blur"
    /\ IF cv.blur_every = 0
       THEN /\ pc' = "raised"
            /\ error' = "ZeroDivisionError"
            /\ cv' = cv
       ELSE /\ cv' = IF BlurNow(cv.t, cv.blur_every)
                     THEN [cv EXCEPT !.X = blur_image(cv.X, 5),
                                     !.blurred = Append(@, cv.t),
                                     !.steps = Append(@, "blur")]
                     ELSE cv
            /\ pc' = "cv_show"
            /\ error' = error
    /\ UNCHANGED <<model, args, ret, Xi, target_y, X_fooling, fool_updates, st, nb>>

\* The periodic plt.imshow ... plt.show(), and the end of the iteration.  For
\* t > 0 the test takes (t + 1) % show_every, which raises ZeroDivisionError
\* when show_every is 0.
CvShow ==
    /\ pc = "cv_show"
    /\ IF cv.t # 0 /\ cv.show_every = 0
       THEN /\ pc' = "raised"
            /\ error' = "ZeroDivisionError"
            /\ cv' = cv
       ELSE /\ LET show == ShowNow(cv.t, cv.show_every, cv.num_iterations)
               IN  cv' = [cv EXCEPT
                          !.shown = IF show THEN Append(@, [t |-> cv.t, img |-> cv.X[1]])
                                    ELSE @,
                          !.steps = IF show THEN Append(@, "show") ELSE @,
                          !.t = @ + 1]
            /\ pc' = "cv_loop"
            /\ error' = error
    /\ UNCHANGED <<model, args, ret, Xi, target_y, X_fooling, fool_updates, st, nb>>

\* A return one pass before range(num_iterations) is used up.
CvReturnEarly ==
    /\ pc = "cv_loop"
    /\ cv.t >= cv.num_iterations - 1
    /\ ret' = NdArray(cv.X)
    /\ pc' = "cv_returned"
    /\ UNCHANGED <<model, error, args, Xi, target_y, X_fooling, fool_updates, st, cv, nb>>

\* return X, when range(num_iterations) is used up.
CvReturn ==
    /\ pc = "cv_loop"
    /\ cv.t >= cv.num_iterations
    /\ ret' = NdArray(cv.X)
    /\ pc' = "cv_returned"
    /\ UNCHANGED <<model, error, args, Xi, target_y, X_fooling, fool_updates, st, cv, nb>>

(***************************************************************************)
(* The state machine.                                                      *)
(***************************************************************************)
Init ==
    /\ pc = "start"
    /\ model = NoModel
    /\ nb \in [name : Notebooks, index_exists : BOOLEAN, done : {<<>>}]
    /\ error = ""
    /\ args = None
    /\ ret = None
    /\ Xi = <<>>
    /\ target_y = 0
    /\ X_fooling = <<>>
    /\ fool_updates = 0
    /\ st = None
    /\ cv = None

Next ==
    \/ NetVisLoadModel
    \/ NetVisLoadData
    \/ StyleCheckCheckpoint
    \/ StyleLoadModel
    \/ ShowSaliencyCall
    \/ ShowSaliencyPlot
    \/ FoolingBind
    \/ FoolingCall
    \/ FoolingAssert
    \/ ExtractFeaturesCall
    \/ ContentLossTestCall
    \/ GramMatrixTestCall
    \/ StyleLossTestCall
    \/ TvLossTestCall
    \/ TestReport
    \/ StyleTransferSetup
    \/ StyleTransferIter
    \/ JitterCall
    \/ JitterUndoCall
    \/ CvSetup
    \/ CvJitter
    \/ CvGradientStep
    \/ CvUndoJitter
    \/ CvClip
    \/ CvBlur
    \/ CvShow
    \/ CvReturn

Spec == Init /\ [][Next]_vars
\* The positions inside the loop of create_class_visualization.
CvRunning == {"cv_loop", "cv_step", "cv_undo", "cv_clip", "cv_blur", "cv_show"}
\* The interpreter runs the next statement of a started call: from each
\* position of the loop the call moves on to the next one, returns or raises.
CvAdvance ==
    /\ pc \in CvRunning
    /\ pc' \in (CvRunning \cup {"cv_returned", "raised"}) \ {pc}
FairSpec == Init /\ [][Next]_vars /\ WF_pc(CvAdvance)

(***************************************************************************)
(* Reference values the properties below compare the returned values to.   *)
(***************************************************************************)
\* max over the channels of |dL/dX[n][h][w][c]|, L the sum of the true-class scores:
\* only scores[n][y[n]] depends on image n.
SaliencyRef(m, X, y) ==
    [n \in 1..Len(X) |-> [h \in 1..Height(X[n]) |-> [w \in 1..Width(X[n]) |->
        Max2(Abs(ScoreGrad(m, y[n], 1)),
             Max2(Abs(ScoreGrad(m, y[n], 2)), Abs(ScoreGrad(m, y[n], 3))))]]]

\* Sum over all elements of (a - b)^2, for two batches of one map each.
SumSqDiff(a, b) ==
    SumFn([p \in Cells(a[1]) |->
        (a[1][p[1]][p[2]][p[3]] - b[1][p[1]][p[2]][p[3]])
      * (a[1][p[1]][p[2]][p[3]] - b[1][p[1]][p[2]][p[3]])])

\* Sum over the H*W positions k of F[k][i] * F[k][j], F the map of a batch of one.
GramRef(features, i, j) ==
    SumFn([q \in (1..Height(features[1])) \X (1..Width(features[1])) |->
        features[1][q[1]][q[2]][i] * features[1][q[1]][q[2]][j]])
Neurons(features) == Height(features[1]) * Width(features[1]) * Channels

\* Sum of squared differences of vertically and of horizontally adjacent pixels.
TvRef(img) ==
    LET x == img[1]
        H == Height(x)
        W == Width(x)
    IN  SumFn([p \in (1..(H - 1)) \X (1..W) \X (1..Channels) |->
            (x[p[1] + 1][p[2]][p[3]] - x[p[1]][p[2]][p[3]])
          * (x[p[1] + 1][p[2]][p[3]] - x[p[1]][p[2]][p[3]])])
      + SumFn([p \in (1..H) \X (1..(W - 1)) \X (1..Channels) |->
            (x[p[1]][p[2] + 1][p[3]] - x[p[1]][p[2]][p[3]])
          * (x[p[1]][p[2] + 1][p[3]] - x[p[1]][p[2]][p[3]])])

(***************************************************************************)
(* Properties.                                                             *)
(***************************************************************************)

\* C1: compute_saliency_maps returns an array of shape (N, H, W) for a batch
\* of shape (N, H, W, 3), and every entry of it is >= 0.
SaliencyShapeNonNegative ==
    pc = "saliency_returned" =>
        /\ ret.kind = "ndarray"
        /\ Len(ret.val) = Len(args.X)
        /\ \A n \in 1..Len(args.X) :
            /\ Len(ret.val[n]) = Height(args.X[n])
            /\ \A h \in 1..Height(args.X[n]) :
                /\ Len(ret.val[n][h]) = Width(args.X[n])
                /\ \A w \in 1..Width(args.X[n]) : ret.val[n][h][w] >= 0

\* C2: saliency[n][h][w] is the maximum over the three channels of
\* |dL/dX[n][h][w][c]|, L being the sum over the batch of scores[i][y[i]].
SaliencyIsMaxAbsGradient ==
    pc = "saliency_returned" =>
        /\ ret.kind = "ndarray"
        /\ ret.val = SaliencyRef(model, args.X, args.y)

\* C3: the image returned by make_fooling_image is classified as target_y,
\* so the assertion of the calling cell does not fire.
FoolingImageClassifiedAsTarget ==
    /\ pc = "fooling_returned" => ArgMax(Scores(model, X_fooling)[1]) = target_y
    /\ error # "AssertionError: The network is not fooled!"

\* C4: when make_fooling_image has returned, either the predicted class of
\* the image is target_y or the iteration cap was reached; and no update is
\* applied to an image whose predicted class is target_y.
FoolingStopsAtTargetOrCap ==
    /\ pc = "fooling_returned" =>
          \/ ArgMax(Scores(model, X_fooling)[1]) = target_y
          \/ fool_updates = FoolingIterCap
    /\ fool_updates <= FoolingIterCap

\* C5: content_loss returns the scalar content_weight * sum of
\* (content_current - content_original)^2, which is 0 for equal maps.
ContentLossIsWeightedSquaredDistance ==
    pc = "content_loss_returned" =>
        /\ ret.kind = "scalar"
        /\ ret.val = args.content_weight
                        * SumSqDiff(args.content_current, args.content_original)
        /\ args.content_current = args.content_original => ret.val = 0

\* C6: gram_matrix returns the symmetric (C, C) matrix of the sums over the
\* positions k of F[k][i] * F[k][j], divided by H*W*C when normalize is True.
GramMatrixIsChannelProducts ==
    pc = "gram_matrix_returned" =>
        /\ ret.kind = "ndarray"
        /\ Len(ret.val) = Channels
        /\ \A i \in 1..Channels :
            /\ Len(ret.val[i]) = Channels
            /\ \A j \in 1..Channels :
                /\ ret.val[i][j] * (IF args.normalize THEN Neurons(args.features) ELSE 1)
                      = GramRef(args.features, i, j)
                /\ ret.val[i][j] = ret.val[j][i]

\* C7: style_loss returns the sum over the style layers i of style_weights[i]
\* times the sum over the entries of (gram_matrix(feats[style_layers[i]])
\* - style_targets[i])^2; the Gram matrix is the normalized one, G / (H*W*C).
StyleLossIsWeightedGramDistance ==
    pc = "style_loss_returned" =>
        /\ ret.kind = "scalar"
        /\ \A i \in 1..Len(args.style_layers) : args.style_targets[i].kind = "ndarray"
        /\ LET D == Neurons(At(args.feats, args.style_layers[1]))
           IN  ret.val * D * D =
                 SumFn([i \in 1..Len(args.style_layers) |->
                    args.style_weights[i] *
                    SumFn([e \in (1..Channels) \X (1..Channels) |->
                        (GramRef(At(args.feats, args.style_layers[i]), e[1], e[2])
                            - D * args.style_targets[i].val[e[1]][e[2]])
                      * (GramRef(At(args.feats, args.style_layers[i]), e[1], e[2])
                            - D * args.style_targets[i].val[e[1]][e[2]])])])

\* C8: tv_loss returns tv_weight times the sum of the squared differences of
\* all vertically and all horizontally adjacent pixels, over the channels;
\* that is 0 for a constant image and for H = W = 1.
TvLossIsWeightedVariation ==
    pc = "tv_loss_returned" =>
        /\ ret.kind = "scalar"
        /\ ret.val = args.tv_weight * TvRef(args.img)
        /\ (Height(args.img[1]) = 1 /\ Width(args.img[1]) = 1) => ret.val = 0

\* C9: the optimizer of style_transfer applies the higher rate (3.0) in the
\* updates of the iterations t < 180 and the lower rate (0.1) in the updates
\* of the iterations 180 <= t < 200.
LearningRateFollowsSchedule ==
    pc = "st_loop" =>
        \A i \in 0..(max_iter - 1) :
            AdamRate(st.optimizer, i) = IF i < decay_lr_at THEN initial_lr ELSE decayed_lr

\* The t % blur_every and show tests of iteration t of the class visualization.
CvBlurDue(t) == t % cv.blur_every = 0
CvShowDue(t) ==
    t = 0 \/ (t + 1) % cv.show_every = 0 \/ t = cv.num_iterations - 1
CvTail(t) ==
    (IF CvBlurDue(t) THEN <<"blur">> ELSE <<>>) \o (IF CvShowDue(t) THEN <<"show">> ELSE <<>>)

\* C11: every iteration of create_class_visualization does, in this order and
\* nothing else: jitter by (ox, oy), the gradient-ascent step on the jittered
\* image, the jitter undone, the clip, the blur on blur iterations, the show
\* on snapshot iterations.
CvIterationOrder ==
    (pc = "cv_loop" /\ cv.t > 0) =>
        cv.steps = <<"jitter", "ascent", "undo", "clip">> \o CvTail(cv.t - 1)

\* A pixel value v (tenths) of channel c lies in
\* [-MEAN[c]/STD[c], (1 - MEAN[c])/STD[c]].
CvValid(v, c) ==
    /\ v * SQUEEZENET_STD[c] >= 0 - 10 * SQUEEZENET_MEAN[c]
    /\ v * SQUEEZENET_STD[c] <= 10 * (1000 - SQUEEZENET_MEAN[c])
CvInRange(X) ==
    \A n \in 1..Len(X) : \A h \in 1..Len(X[n]) : \A w \in 1..Len(X[n][h]) :
        \A c \in 1..Channels : CvValid(X[n][h][w][c], c)

\* C12: at the end of every iteration of create_class_visualization (after
\* the clip and any blur) and in the returned image, every pixel of channel c
\* lies in [-MEAN[c]/STD[c], (1 - MEAN[c])/STD[c]].
CvPixelsInValidRange ==
    /\ pc \in {"cv_show", "cv_loop", "cv_returned"} => CvInRange(cv.X)
    /\ pc = "cv_returned" => CvInRange(ret.val)
\* A returned image that went through clips and at least one changing blur.
CvPixelsInValidRangeWitness ==
    /\ pc = "cv_returned"
    /\ cv.t >= 2
    /\ Len(cv.blurred) >= 1
    /\ \A d \in {0, MaxPix} : ret.val # <<CvNoise(d)>>

\* C13: when SAVE_PATH + '.index' does not exist, the loading cell raises
\* ValueError('You need to download SqueezeNet!') before the model is built,
\* weights are loaded, any image or reference data is loaded or anything else
\* runs.
MissingCheckpointRaisesFirst ==
    ~nb.index_exists =>
        /\ pc \in {"start", "raised"}
        /\ pc = "raised" => error = "ValueError: You need to download SqueezeNet!"
        /\ model = NoModel
        /\ nb.done = <<>>
        /\ args = None /\ ret = None /\ st = None /\ cv = None
\* The run of either notebook ended by the ValueError.
MissingCheckpointRaisesFirstWitness ==
    /\ ~nb.index_exists
    /\ pc = "raised"
    /\ error = "ValueError: You need to download SqueezeNet!"
    /\ nb.done = <<>>

\* The fooling image is not classified as target_y.
NotFooled == ArgMax(Scores(model, X_fooling)[1]) # target_y
SameShape(A, B) ==
    /\ Len(A) = Len(B)
    /\ \A n \in 1..Len(A) :
          /\ Len(A[n]) = Len(B[n])
          /\ \A h \in 1..Len(A[n]) :
                /\ Len(A[n][h]) = Len(B[n][h])
                /\ \A w \in 1..Len(A[n][h]) : Len(A[n][h][w]) = Len(B[n][h][w])

FeatureChain(features, x) ==
    \A i \in 0..(Len(features) - 1) :
        At(features, i) = Layer(i, IF i = 0 THEN x ELSE At(features, i - 1))

FoolingKeepsInput ==
    [][(pc \in {"fooling_bound", "fooling_returned"}) => (Xi' = Xi)]_vars
\* The call has returned its image for a bound input.
FoolingKeepsInputWitness ==
    /\ pc = "fooling_returned"
    /\ Xi # <<>>
    /\ SameShape(X_fooling, Xi)
    /\ \E n \in 1..Len(Xi) : \E h \in 1..Len(Xi[n]) : \E w \in 1..Len(Xi[n][h]) :
          \E ch \in 1..Channels : Xi[n][h][w][ch] # 0

\* style_transfer has been entered: `st' holds its local names.
InStyleTransfer == pc \in {"st_loop", "st_done"} \/ (pc = "raised" /\ st # None)

\* C18: style_transfer starts img_var from exactly the preprocessed content
\* image, as a batch of one, when init_random is False, and from uniform noise
\* in [0, 1) of the same shape when it is True; the image keeps that shape
\* through the loop.
StyleTransferInitialImage ==
    /\ (pc = "st_loop" /\ st.t = 0) =>
          IF st.init_random
          THEN \A h \in 1..Len(st.img_var[1]) : \A w \in 1..Len(st.img_var[1][h]) :
                  \A ch \in 1..Channels : st.img_var[1][h][w][ch] \in 0..9
          ELSE st.img_var = <<st.content_img>>
    /\ InStyleTransfer => SameShape(st.img_var, <<st.content_img>>)
\* The loop entered from noise that differs from the content image.
StyleTransferInitialImageWitness ==
    /\ pc = "st_loop"
    /\ st.t = 0
    /\ st.init_random
    /\ st.img_var # <<st.content_img>>
    /\ Height(st.content_img) = MaxH

\* C19: jitter by (ox, oy) followed by jitter by (-ox, -oy) gives back the
\* tensor, for the offsets 0 <= ox, oy < max_jitter <= min(H, W) the loop
\* draws: with no gradient step between them, one jitter/undo pair of the
\* loop leaves the image as it was.
JitterRoundTrip ==
    /\ pc = "jitter_undone" =>
          LET bound == Min2(Len(args.X[1]), Len(args.X[1][1]))
          IN  (args.ox \in 0..(bound - 1) /\ args.oy \in 0..(bound - 1)) =>
                  ret.val = args.X
    /\ (pc = "cv_clip" /\ cv.max_jitter <= CvSize) => cv.X = cv.start
\* A pair in the loop with both offsets non-zero, and its jittered image
\* differed from the image at the head of the iteration.
JitterRoundTripWitness ==
    /\ pc = "cv_clip"
    /\ cv.max_jitter <= CvSize
    /\ cv.ox > 0 /\ cv.oy > 0
    /\ cv.before # cv.start
    /\ cv.X = cv.start

\* R is X moved by ox along the width and oy along the height, around the edges.
IsShift(R, X, ox, oy) ==
    /\ SameShape(R, X)
    /\ \A n \in 1..Len(X) : \A h \in 1..Len(X[n]) : \A w \in 1..Len(X[n][h]) :
          \A c \in 1..Len(X[n][h][w]) :
              R[n][((h - 1 + oy) % Len(X[n])) + 1][((w - 1 + ox) % Len(X[n][h])) + 1][c]
                  = X[n][h][w][c]

\* C20: for |ox| < W and |oy| < H, R = jitter(X, ox, oy) has the shape of X
\* and R[n, (h + oy) mod H, (w + ox) mod W, c] = X[n, h, w, c]; jitter(X, 0, 0)
\* is X.
JitterIsCircularShift ==
    /\ pc = "jitter_returned" =>
          /\ (Abs(args.ox) < Len(args.X[1][1]) /\ Abs(args.oy) < Len(args.X[1])) =>
                 IsShift(ret.val, args.X, args.ox, args.oy)
          /\ (args.ox = 0 /\ args.oy = 0) => ret.val = args.X
    /\ (pc \in {"cv_step", "cv_undo", "cv_clip"}
            /\ Abs(cv.off[1]) < CvSize /\ Abs(cv.off[2]) < CvSize) =>
          IsShift(cv.X, cv.before, cv.off[1], cv.off[2])
\* A call in the loop with a negative offset along the width and a non-zero
\* one along the height, on an image the shift changes.
JitterIsCircularShiftWitness ==
    /\ pc = "cv_clip"
    /\ cv.off[1] < 0 /\ cv.off[1] > 0 - CvSize
    /\ cv.off[2] # 0 /\ cv.off[2] > 0 - CvSize
    /\ cv.X # cv.before

\* The squared L2 distance of two tensors of one shape.
SqDist(A, B) ==
    SumFn([p \in (1..Len(A)) \X (1..Len(A[1])) \X (1..Len(A[1][1])) \X (1..Channels) |->
              (A[p[1]][p[2]][p[3]][p[4]] - B[p[1]][p[2]][p[3]][p[4]])
                  * (A[p[1]][p[2]][p[3]][p[4]] - B[p[1]][p[2]][p[3]][p[4]])])

\* C21: make_fooling_image moves an image that is not yet classified as
\* target_y by updates learning_rate * g / ||g||_2: at least one update is
\* made, one update moves the image by exactly learning_rate in L2 norm, and
\* k updates move it by at most k * learning_rate.
FoolingStepsHaveUnitNorm ==
    (pc = "fooling_returned" /\ ArgMax(Scores(model, Xi)[1]) # target_y) =>
        /\ fool_updates >= 1
        /\ SqDist(X_fooling, Xi)
              <= (fool_updates * learning_rate_fool) * (fool_updates * learning_rate_fool)
        /\ fool_updates = 1 =>
              SqDist(X_fooling, Xi) = learning_rate_fool * learning_rate_fool

\* C22: content_target and the style targets are bound before the loop of
\* style_transfer and no pass of the loop changes them, nor the model, nor the
\* arguments of the call: a pass changes at most img_var, the optimizer's
\* state, the loop counter and what has been rendered.
StyleTargetsFixed ==
    [][(pc = "st_loop") =>
          (/\ st'.content_target = st.content_target
           /\ st'.style_targets = st.style_targets
           /\ st'.content_img = st.content_img
           /\ st'.content_layer = st.content_layer
           /\ st'.style_layers = st.style_layers
           /\ st'.style_weights = st.style_weights
           /\ st'.content_weight = st.content_weight
           /\ st'.tv_weight = st.tv_weight
           /\ model' = model)]_vars
\* A pass has run on a generated image whose features at content_layer differ
\* from content_target, and content_target is still that of the content image.
StyleTargetsFixedWitness ==
    /\ pc = "raised"
    /\ st # None
    /\ At(extract_features(st.img_var, model), st.content_layer) # st.content_target
    /\ st.content_target = At(extract_features(<<st.content_img>>, model), st.content_layer)

\* The iterations 0, b, 2b, ... below n, in increasing order.
MultiplesBelow(n, b) ==
    IF n <= 0 THEN <<>> ELSE [k \in 1..(((n - 1) \div b) + 1) |-> (k - 1) * b]
InSeq(x, seq) == \E i \in 1..Len(seq) : seq[i] = x

\* C23: create_class_visualization blurs in exactly the iterations t with
\* t % blur_every = 0, the first one (t = 0) among them; with the defaults
\* (100 iterations, blur_every = 10) these are t = 0, 10, ..., 90, ten blurs,
\* and the last iteration t = 99 is not one of them.
CvBlurSchedule ==
    /\ (pc \in {"cv_loop", "cv_returned"} /\ cv.blur_every > 0) =>
          cv.blurred = MultiplesBelow(cv.t, cv.blur_every)
    /\ (pc = "cv_show" /\ cv.blur_every > 0) =>
          /\ cv.blurred = MultiplesBelow(cv.t + 1, cv.blur_every)
          /\ cv.t = 0 => cv.blurred = <<0>>
    /\ (pc = "cv_returned" /\ cv.num_iterations = DefaultIterations
            /\ cv.blur_every = DefaultBlurEvery) =>
          /\ cv.blurred = <<0, 10, 20, 30, 40, 50, 60, 70, 80, 90>>
          /\ ~InSeq(DefaultIterations - 1, cv.blurred)
\* The call with the defaults has returned after its ten blurs.
CvBlurScheduleWitness ==
    /\ pc = "cv_returned"
    /\ cv.num_iterations = DefaultIterations
    /\ cv.blur_every = DefaultBlurEvery
    /\ cv.t = DefaultIterations
    /\ Len(cv.blurred) = 10

\* The iterations of the snapshots shown so far, in the order shown.
CvShownAt == [i \in 1..Len(cv.shown) |-> cv.shown[i].t]

\* C24: create_class_visualization shows a snapshot in exactly the iterations
\* t with t = 0, (t + 1) % show_every = 0 or t = num_iterations - 1: the first
\* and the last iteration are always shown, no iteration is shown twice, and
\* with the defaults (100 iterations, show_every = 25) the snapshots are those
\* of t = 0, 24, 49, 74, 99.
CvShowSchedule ==
    pc \in {"cv_loop", "cv_returned"} =>
        /\ cv.show_every > 0 =>
              \A t \in 0..(cv.t - 1) :
                  InSeq(t, CvShownAt) <=>
                      (t = 0 \/ (t + 1) % cv.show_every = 0 \/ t = cv.num_iterations - 1)
        /\ \A i \in 1..Len(CvShownAt), j \in 1..Len(CvShownAt) :
              i < j => CvShownAt[i] < CvShownAt[j]
        /\ cv.t >= 1 => CvShownAt[1] = 0
        /\ (pc = "cv_returned" /\ cv.num_iterations >= 1) =>
              CvShownAt[Len(CvShownAt)] = cv.num_iterations - 1
        /\ (pc = "cv_returned" /\ cv.num_iterations = DefaultIterations
                /\ cv.show_every = DefaultShowEvery) =>
              CvShownAt = <<0, 24, 49, 74, 99>>
\* The call with the defaults has returned after its five snapshots.
CvShowScheduleWitness ==
    /\ pc = "cv_returned"
    /\ cv.num_iterations = DefaultIterations
    /\ cv.show_every = DefaultShowEvery
    /\ Len(cv.shown) = 5

\* The keyword arguments with which no statement of the loop raises.
CvKwargsValid ==
    \/ cv.num_iterations = 0
    \/ /\ cv.max_jitter >= 1
       /\ cv.blur_every # 0
       /\ (cv.show_every # 0 \/ cv.num_iterations = 1)
\* What holds when create_class_visualization has returned: num_iterations
\* passes were made, each with one jitter, one undo and one clip, and the image
\* returned is X; with no pass it is the noise the call started from.
CvReturnedAfterAllIterations ==
    pc = "cv_returned" =>
        /\ cv.t = cv.num_iterations
        /\ cv.calls = [jitter |-> cv.num_iterations, undo |-> cv.num_iterations,
                       clip |-> cv.num_iterations]
        /\ ret = NdArray(cv.X)
        /\ cv.num_iterations = 0 =>
              /\ ret.val = cv.noise
              /\ cv.steps = <<>> /\ cv.blurred = <<>> /\ cv.shown = <<>>

\* C25 as stated: every call of create_class_visualization ends, after
\* exactly num_iterations passes of the loop, with the return of the image.
CvAlwaysReturns ==
    /\ [](CvReturnedAfterAllIterations)
    /\ (pc = "cv_loop") ~> (pc = "cv_returned")
\* C25: every call of create_class_visualization ends; it ends with the
\* return of the image, after exactly num_iterations passes (one jitter, one
\* undo, one clip each), when num_iterations is 0 or max_jitter >= 1,
\* blur_every # 0 and (show_every # 0 or num_iterations = 1), and in an
\* exception otherwise; with num_iterations = 0 it returns the initial noise
\* with no jitter, clip, blur or snapshot.
CvReturnsForValidKwargs ==
    /\ [](CvReturnedAfterAllIterations)
    /\ (pc = "cv_loop" /\ CvKwargsValid) ~> (pc = "cv_returned")
    /\ (pc = "cv_loop" /\ ~CvKwargsValid) ~> (pc = "raised")
\* A call of three passes has returned.
CvReturnsForValidKwargsWitness ==
    /\ pc = "cv_returned"
    /\ cv.num_iterations = MaxIters
    /\ cv.calls.clip = MaxIters
    /\ cv.show_every # 0

\* C26: a call of style_transfer makes exactly max_iter = 200 passes of its
\* loop (loss and gradient, update, clip) and renders the image at t = 0, at
\* t = 100 and once after the loop under the label 199: three renders.
StyleTransferRunsAllIterations ==
    (InStyleTransfer /\ pc # "st_loop") =>
        /\ pc = "st_done"
        /\ st.t = max_iter
        /\ st.optimizer.iterations = max_iter
        /\ [i \in 1..Len(st.rendered) |-> st.rendered[i].label] = <<0, 100, 199>>

\* The shape of a batch of feature maps, (N, H, W, C), and of a matrix.
ShapeOf(X) == <<Len(X), Len(X[1]), Len(X[1][1]), Len(X[1][1][1])>>
MatrixShape(G) == <<Len(G), Len(G[1])>>
\* C27: the tensors a loss of style_transfer compares have equal shapes: the
\* feature map of the generated image at content_layer has the shape of
\* content_target, and for every style layer the Gram matrix of the generated
\* image and the style target are both (C_l, C_l) arrays, whatever the size of
\* the style image.
StyleTransferShapesAgree ==
    InStyleTransfer =>
        LET feats == extract_features(st.img_var, model)
        IN  /\ ShapeOf(At(feats, st.content_layer)) = ShapeOf(st.content_target)
            /\ \A i \in 1..Len(st.style_layers) :
                  LET current == At(feats, st.style_layers[i])
                      C_l == ShapeOf(current)[4]
                      gram == gram_matrix(current, TRUE)
                  IN  /\ gram.kind = "ndarray"
                      /\ st.style_targets[i].kind = "ndarray"
                      /\ MatrixShape(gram.val) = <<C_l, C_l>>
                      /\ MatrixShape(st.style_targets[i].val) = <<C_l, C_l>>

\* C28: style_loss called with every style weight 0 returns 0.
StyleLossZeroForZeroWeights ==
    (/\ pc = "style_loss_returned"
     /\ \A i \in 1..Len(args.style_weights) : args.style_weights[i] = 0) =>
        /\ ret.kind = "scalar"
        /\ ret.val = 0

====
